---- MODULE Spec2Model ----
(***************************************************************************)
(* Model of accounts/abstract_models.py: the Account, Transfer and         *)
(* Transaction models and PostingManager.create (the posting protocol).    *)
(*                                                                         *)
(* Money is counted in whole units of the smallest denomination (a         *)
(* Decimal with two places is an integer number of cents).                 *)
(*                                                                         *)
(* Storage is a relational database driven through the Django ORM:         *)
(*   - the committed tables are db_acct, db_transfers and db_txns;         *)
(*   - the writes of a transaction.commit_on_success() block are held in   *)
(*     tx_transfers / tx_txns / tx_rows until the block exits, and are     *)
(*     visible to the reads of the same block only (READ COMMITTED);       *)
(*   - an UPDATE of an account row keeps the row locked until the          *)
(*     transaction ends, a second writer of the same row waits;            *)
(*   - a save() outside a commit_on_success block is committed at once.    *)
(* Every request (process) works on its own in-memory Account objects,     *)
(* loaded from the committed rows at some earlier moment.                  *)
(***************************************************************************)
EXTENDS Integers, FiniteSets, Sequences, TLC

\* ---- bounds of the model -------------------------------------------------
\* postings that get past validation (each draws an id from the sequence)
MaxTransfers == 2

\* two concurrent requests
Procs == {"p1", "p2"}
Accounts == {"A", "B"}
\* the amounts a caller passes: negative, zero and one unit
Amounts == {-1, 0, 1}

\* ---- Account constants ---------------------------------------------------
OPEN == "Open"
CLOSED == "Closed"

\* credit_limit is nullable: <<>> is None, <<n>> is the limit n
Null == <<>>

\* The accounts that exist: A has no credit limit (a funding account), B may
\* run 1 unit into debt.
InitCreditLimit(a) == IF a = "A" THEN Null ELSE <<1>>

VARIABLES
    db_acct,        \* committed Account rows: status, balance, credit_limit
    db_transfers,   \* committed Transfer rows
    db_txns,        \* committed Transaction rows
    nextId,         \* the Transfer table's id sequence
    lock,           \* account row -> the process whose open transaction updated it
    obj,            \* obj[p][a]: process p's in-memory Account object of a
    pc,             \* position of each process in post() / close()
    cur,            \* arguments of the call in progress
    tid,            \* id of the Transfer row the call in progress created
    tx_transfers,   \* uncommitted Transfer rows of p's transaction
    tx_txns,        \* uncommitted Transaction rows of p's transaction
    tx_rows,        \* uncommitted Account row updates of p's transaction
    out,            \* what the step just taken returned or raised, and to whom
    alone,          \* history: no other call has overlapped p's call so far
    rival,          \* history: the process whose posting races p's for the same funds
    won,            \* history: the racing postings that have committed
    users,          \* committed auth.User rows: present, username
    dates,          \* start_date and end_date of the account that is asked about
    today,          \* datetime.date.today()
    seen            \* what the active manager and is_active() last answered

vars == <<db_acct, db_transfers, db_txns, nextId, lock, obj, pc, cur, tid,
          tx_transfers, tx_txns, tx_rows, out, alone, rival, won,
          users, dates, today, seen>>

postvars == <<db_acct, db_transfers, db_txns, nextId, lock, obj, pc, cur, tid,
              tx_transfers, tx_txns, tx_rows, out, alone, rival, won>>
auxvars == <<users, dates, today, seen>>

dbvars == <<db_acct, db_transfers, db_txns>>
txvars == <<tx_transfers, tx_txns, tx_rows>>

NoProc == "none"
NoOut == [proc |-> NoProc, outcome |-> "none"]
Out(p, o) == [proc |-> p, outcome |-> o]
NoCall == [op |-> "none", source |-> "A", destination |-> "A", amount |-> 0]

RECURSIVE SumAmounts(_)
\* Sum('amount') over a set of Transaction rows
SumAmounts(S) ==
    IF S = {} THEN 0
    ELSE LET e == CHOOSE x \in S : TRUE
         IN  e.amount + SumAmounts(S \ {e})

\* rows of account a that a query run by process p sees
VisibleTxns(p, a) == {e \in db_txns \cup tx_txns[p] : e.account = a}

\* Account._balance: aggregate(sum=Sum('amount')), 0.00 when there is no row
Account_balance(p, a) ==
    LET rows == VisibleTxns(p, a)
    IN  IF rows = {} THEN 0 ELSE SumAmounts(rows)

\* Account.is_open
is_open(o) == o.status = OPEN

\* is_debit_permitted with the comparison made strict
is_debit_permitted_strict(o, amount) ==
    IF o.credit_limit = Null THEN TRUE
    ELSE LET available == o.balance + o.credit_limit[1]
         IN  amount < available

\* Account.is_debit_permitted
is_debit_permitted(o, amount) ==
    IF o.credit_limit = Null THEN TRUE
    ELSE LET available == o.balance + o.credit_limit[1]
         IN  amount <= available

\* verify_transfer with the amount test letting zero through
verify_transfer_zero_amount(source, destination, amount) ==
    IF amount < 0 THEN "InvalidAmount"
    ELSE IF source.status # OPEN THEN "ClosedAccountSource"
    ELSE IF destination.status # OPEN THEN "ClosedAccountDestination"
    ELSE IF ~is_debit_permitted(source, amount) THEN "InsufficientFunds"
    ELSE "pass"

\* verify_transfer without the test of the destination
verify_transfer_source_only(source, destination, amount) ==
    IF amount <= 0 THEN "InvalidAmount"
    ELSE IF source.status # OPEN THEN "ClosedAccountSource"
    ELSE IF ~is_debit_permitted(source, amount) THEN "InsufficientFunds"
    ELSE "pass"

\* verify_transfer with the destination tested before the source
verify_transfer_destination_first(source, destination, amount) ==
    IF amount <= 0 THEN "InvalidAmount"
    ELSE IF ~is_open(destination) THEN "ClosedAccountDestination"
    ELSE IF ~is_open(source) THEN "ClosedAccountSource"
    ELSE IF ~is_debit_permitted(source, amount) THEN "InsufficientFunds"
    ELSE "pass"

\* PostingManager.verify_transfer: the exception raised, or "pass"
verify_transfer(source, destination, amount) ==
    IF amount <= 0 THEN "InvalidAmount"
    ELSE IF ~is_open(source) THEN "ClosedAccountSource"
    ELSE IF ~is_open(destination) THEN "ClosedAccountDestination"
    ELSE IF ~is_debit_permitted(source, amount) THEN "InsufficientFunds"
    ELSE "pass"

TxPcs == {"transfer", "debit", "credit", "srcbal", "srcsave",
          "dstbal", "dstsave", "wrap", "commit"}

\* ledger balance of a in the committed tables
Ledger(a) == SumAmounts({e \in db_txns : e.account = a})

\* the users that authorise transfers, and the names they may take
Users == {"u1", "u2"}
Names == {"ann", "bea"}
NoUser == "nouser"
InitUsers == [u \in Users |-> [present |-> TRUE, username |-> "ann"]]

\* the days of the calendar
MaxDay == 3
Days == 1 .. MaxDay
NoDates == [start_date |-> Null, end_date |-> Null]
Unasked == [listed |-> "unasked", active |-> "unasked"]

\* the accounts and the ledger are empty and every process is idle
PostingInit ==
    /\ db_acct = [a \in Accounts |->
                    [status |-> OPEN, balance |-> 0,
                     credit_limit |-> InitCreditLimit(a)]]
    /\ db_transfers = {}
    /\ db_txns = {}
    /\ nextId = 1
    /\ lock = [a \in Accounts |-> NoProc]
    /\ obj = [p \in Procs |-> [a \in Accounts |->
                    [status |-> OPEN, balance |-> 0,
                     credit_limit |-> InitCreditLimit(a)]]]
    /\ pc = [p \in Procs |-> "idle"]
    /\ cur = [p \in Procs |-> NoCall]
    /\ tid = [p \in Procs |-> 0]
    /\ tx_transfers = [p \in Procs |-> {}]
    /\ tx_txns = [p \in Procs |-> {}]
    /\ tx_rows = [p \in Procs |-> [a \in Accounts |-> <<>>]]
    /\ out = NoOut
    /\ alone = [p \in Procs |-> FALSE]
    /\ rival = [p \in Procs |-> NoProc]
    /\ won = {}

Init ==
    /\ PostingInit
    /\ users = InitUsers
    /\ dates = NoDates
    /\ today = 1
    /\ seen = Unasked

\* A new request of p starts: it fetches its accounts from the database
Load(p) ==
    /\ pc[p] = "idle"
    /\ obj[p] # db_acct
    /\ obj' = [obj EXCEPT ![p] = db_acct]
    /\ out' = NoOut
    /\ UNCHANGED <<dbvars, txvars, nextId, lock, pc, cur, tid,
                   alone, rival, won>>
    /\ UNCHANGED auxvars

\* a call of p starts: it overlaps the calls in progress, and is itself
\* overlapped unless every other process is idle
Overlap(p) ==
    [q \in Procs |-> IF q = p THEN \A r \in Procs \ {p} : pc[r] = "idle"
                     ELSE IF pc[q] # "idle" THEN FALSE ELSE alone[q]]

\* the call of p has ended
Ended(p) == [alone EXCEPT ![p] = FALSE]

\* the posting call and the posting of q are past validation together, debit
\* the same credit-limited source, and the committed ledger affords either
\* amount alone but not both
Racing(s, amt, q) ==
    /\ pc[q] \in TxPcs
    /\ cur[q].source = s
    /\ db_acct[s].credit_limit # Null
    /\ LET avail == Ledger(s) + db_acct[s].credit_limit[1]
       IN  /\ amt <= avail
           /\ cur[q].amount <= avail
           /\ amt + cur[q].amount > avail

\* the race of p (if any) is over without both postings committed
RaceOver(p) ==
    [q \in Procs |-> IF q = p \/ rival[q] = p THEN NoProc ELSE rival[q]]

\* PostingManager.create, line 148: Transfer.objects.create(...) is called and
\* validates the transfer on the Account objects it was given; the model
\* has post() called while an id below the bound is left for the call
Post(p, s, d, amt) ==
    /\ pc[p] = "idle"
    /\ nextId + Cardinality({q \in Procs : pc[q] = "transfer"}) <= MaxTransfers
    /\ LET r == verify_transfer(obj[p][s], obj[p][d], amt)
       IN  IF r = "pass"
           THEN /\ pc' = [pc EXCEPT ![p] = "transfer"]
                /\ cur' = [cur EXCEPT ![p] = [op |-> "post", source |-> s,
                                   destination |-> d, amount |-> amt]]
                /\ out' = NoOut
                /\ alone' = Overlap(p)
                /\ IF \E q \in Procs \ {p} : Racing(s, amt, q)
                   THEN LET q == CHOOSE q \in Procs \ {p} : Racing(s, amt, q)
                        IN  /\ rival' = [rival EXCEPT ![p] = q, ![q] = p]
                            /\ won' = won \ {p, q}
                   ELSE /\ rival' = RaceOver(p)
                        /\ won' = won \ ({p} \cup {q \in Procs : rival[q] = p})
           ELSE /\ out' = Out(p, r)
                /\ UNCHANGED <<pc, cur, alone, rival, won>>
    /\ UNCHANGED <<dbvars, txvars, nextId, lock, obj, tid>>
    /\ UNCHANGED auxvars

\* a rollback that leaves the Transfer row behind, as if the row had been
\* inserted before the atomic block was entered
Rollback_keeps_transfer(p, exc) ==
    /\ db_transfers' = db_transfers \cup tx_transfers[p]
    /\ tx_transfers' = [tx_transfers EXCEPT ![p] = {}]
    /\ tx_txns' = [tx_txns EXCEPT ![p] = {}]
    /\ tx_rows' = [tx_rows EXCEPT ![p] = [a \in Accounts |-> <<>>]]
    /\ lock' = [a \in Accounts |-> IF lock[a] = p THEN NoProc ELSE lock[a]]
    /\ pc' = [pc EXCEPT ![p] = "idle"]
    /\ out' = Out(p, exc)
    /\ cur' = [cur EXCEPT ![p] = NoCall]
    /\ tid' = [tid EXCEPT ![p] = 0]
    /\ alone' = Ended(p)
    /\ rival' = RaceOver(p)
    /\ won' = won \ ({p} \cup {q \in Procs : rival[q] = p})
    /\ UNCHANGED <<db_acct, db_txns, nextId, obj>>
    /\ UNCHANGED auxvars

\* leaving the commit_on_success block with an exception: rollback
Rollback(p, exc) ==
    /\ tx_transfers' = [tx_transfers EXCEPT ![p] = {}]
    /\ tx_txns' = [tx_txns EXCEPT ![p] = {}]
    /\ tx_rows' = [tx_rows EXCEPT ![p] = [a \in Accounts |-> <<>>]]
    /\ lock' = [a \in Accounts |-> IF lock[a] = p THEN NoProc ELSE lock[a]]
    /\ pc' = [pc EXCEPT ![p] = "idle"]
    /\ out' = Out(p, exc)
    /\ cur' = [cur EXCEPT ![p] = NoCall]
    /\ tid' = [tid EXCEPT ![p] = 0]
    /\ alone' = Ended(p)
    /\ rival' = RaceOver(p)
    /\ won' = won \ ({p} \cup {q \in Procs : rival[q] = p})
    /\ UNCHANGED <<dbvars, nextId, obj>>
    /\ UNCHANGED auxvars

\* Transfer.save, lines 235-236: the username column of a new Transfer
\* authorised by u, '' when there is no user
Transfer_save(u) == IF u # NoUser THEN users[u].username ELSE ""

\* create(), lines 150-155: the Transfer row is inserted with its user
CreateTransferBy(p, u) ==
    /\ pc[p] = "transfer"
    /\ u # NoUser => users[u].present
    /\ tid' = [tid EXCEPT ![p] = nextId]
    /\ nextId' = nextId + 1
    /\ tx_transfers' = [tx_transfers EXCEPT ![p] =
           {[id |-> nextId, source |-> cur[p].source,
             destination |-> cur[p].destination, amount |-> cur[p].amount,
             user |-> u, username |-> Transfer_save(u)]}]
    /\ pc' = [pc EXCEPT ![p] = "debit"]
    /\ out' = NoOut
    /\ UNCHANGED <<dbvars, tx_txns, tx_rows, lock, obj, cur,
                   alone, rival, won>>
    /\ UNCHANGED auxvars

\* create() called with user=None
CreateTransfer(p) == CreateTransferBy(p, NoUser)

\* the unique constraint not enforced
UniqueTogether_unenforced(p, t, a) == TRUE

\* Transaction.Meta.unique_together = ('transfer', 'account')
UniqueTogether(p, t, a) ==
    ~ \E e \in db_txns \cup tx_txns[p] : e.transfer = t /\ e.account = a

\* the debit row written with the amount unsigned
CreateDebit_unsigned(p) ==
    /\ pc[p] = "debit"
    /\ tx_txns' = [tx_txns EXCEPT ![p] = @ \cup
           {[transfer |-> tid[p], account |-> cur[p].source,
             amount |-> cur[p].amount]}]
    /\ pc' = [pc EXCEPT ![p] = "credit"]
    /\ out' = NoOut
    /\ UNCHANGED <<dbvars, tx_transfers, tx_rows, nextId, lock, obj, cur,
                   tid, alone, rival, won>>
    /\ UNCHANGED auxvars

\* create(), lines 157-158: the debit row of the source
CreateDebit(p) ==
    /\ pc[p] = "debit"
    /\ tx_txns' = [tx_txns EXCEPT ![p] = @ \cup
           {[transfer |-> tid[p], account |-> cur[p].source,
             amount |-> -cur[p].amount]}]
    /\ pc' = [pc EXCEPT ![p] = "credit"]
    /\ out' = NoOut
    /\ UNCHANGED <<dbvars, tx_transfers, tx_rows, nextId, lock, obj, cur,
                   tid, alone, rival, won>>
    /\ UNCHANGED auxvars

\* the credit row of the destination left out
CreateCredit_skipped(p) ==
    /\ pc[p] = "credit"
    /\ pc' = [pc EXCEPT ![p] = "srcbal"]
    /\ out' = NoOut
    /\ UNCHANGED <<dbvars, txvars, nextId, lock, obj, cur, tid,
                   alone, rival, won>>
    /\ UNCHANGED auxvars

\* create(), lines 159-160: the credit row of the destination; the insert
\* raises IntegrityError when the (transfer, account) pair exists already
CreateCredit(p) ==
    /\ pc[p] = "credit"
    /\ IF UniqueTogether(p, tid[p], cur[p].destination)
       THEN /\ tx_txns' = [tx_txns EXCEPT ![p] = @ \cup
                  {[transfer |-> tid[p], account |-> cur[p].destination,
                    amount |-> cur[p].amount]}]
            /\ pc' = [pc EXCEPT ![p] = "srcbal"]
            /\ out' = NoOut
            /\ UNCHANGED <<dbvars, tx_transfers, tx_rows, nextId, lock, obj,
                           cur, tid, alone, rival, won>>
            /\ UNCHANGED auxvars
       ELSE Rollback(p, "IntegrityError")

\* Account.save, line 106: self.balance = self._balance()
Account_save_balance(p, a, next) ==
    /\ obj' = [obj EXCEPT ![p][a].balance = Account_balance(p, a)]
    /\ pc' = [pc EXCEPT ![p] = next]
    /\ out' = NoOut
    /\ UNCHANGED <<dbvars, txvars, nextId, lock, cur, tid,
                   alone, rival, won>>
    /\ UNCHANGED auxvars

\* Account.save, line 107: super().save() updates the whole row inside the
\* open transaction; it waits while another transaction holds the row
Account_save_update(p, a, next) ==
    /\ lock[a] \in {NoProc, p}
    /\ lock' = [lock EXCEPT ![a] = p]
    /\ tx_rows' = [tx_rows EXCEPT ![p][a] = <<obj[p][a]>>]
    /\ pc' = [pc EXCEPT ![p] = next]
    /\ out' = NoOut
    /\ UNCHANGED <<dbvars, tx_transfers, tx_txns, nextId, obj, cur, tid,
                   alone, rival, won>>
    /\ UNCHANGED auxvars

\* create(), line 162: source.save()
SourceBalance(p) ==
    /\ pc[p] = "srcbal"
    /\ Account_save_balance(p, cur[p].source, "srcsave")

SourceSave(p) ==
    /\ pc[p] = "srcsave"
    /\ Account_save_update(p, cur[p].source, "dstbal")

\* create(), line 163: destination.save()
DestinationBalance(p) ==
    /\ pc[p] = "dstbal"
    /\ Account_save_balance(p, cur[p].destination, "dstsave")

DestinationSave(p) ==
    /\ pc[p] = "dstsave"
    /\ Account_save_update(p, cur[p].destination, "wrap")

\* create(), line 164 and _wrap: return self._wrap(transfer)
Wrap(p) ==
    /\ pc[p] = "wrap"
    /\ pc' = [pc EXCEPT ![p] = "commit"]
    /\ out' = NoOut
    /\ UNCHANGED <<dbvars, txvars, nextId, lock, obj, cur, tid,
                   alone, rival, won>>
    /\ UNCHANGED auxvars

\* the commit_on_success block exits normally: every write is committed
Commit(p) ==
    /\ pc[p] = "commit"
    /\ db_transfers' = db_transfers \cup tx_transfers[p]
    /\ db_txns' = db_txns \cup tx_txns[p]
    /\ db_acct' = [a \in Accounts |->
                     IF tx_rows[p][a] # <<>> THEN tx_rows[p][a][1]
                     ELSE db_acct[a]]
    /\ tx_transfers' = [tx_transfers EXCEPT ![p] = {}]
    /\ tx_txns' = [tx_txns EXCEPT ![p] = {}]
    /\ tx_rows' = [tx_rows EXCEPT ![p] = [a \in Accounts |-> <<>>]]
    /\ lock' = [a \in Accounts |-> IF lock[a] = p THEN NoProc ELSE lock[a]]
    /\ pc' = [pc EXCEPT ![p] = "idle"]
    /\ out' = Out(p, "ok")
    /\ cur' = [cur EXCEPT ![p] = NoCall]
    /\ tid' = [tid EXCEPT ![p] = 0]
    /\ alone' = Ended(p)
    /\ won' = IF rival[p] # NoProc THEN won \cup {p} ELSE won
    /\ UNCHANGED <<nextId, obj, rival>>
    /\ UNCHANGED auxvars

\* a statement of the block, the _wrap hook or the commit raises (storage
\* fault, deadlock victim, mocked _wrap): commit_on_success rolls back
Fail(p) ==
    /\ pc[p] \in TxPcs
    /\ Rollback(p, "StorageFailure")

\* close() without the balance test
Close_untested(p, a) ==
    /\ pc[p] = "idle"
    /\ obj' = [obj EXCEPT ![p][a] =
                 [@ EXCEPT !.status = CLOSED,
                           !.balance = Account_balance(p, a)]]
    /\ pc' = [pc EXCEPT ![p] = "closesave"]
    /\ cur' = [cur EXCEPT ![p] = [op |-> "close", source |-> a,
                                   destination |-> a, amount |-> 0]]
    /\ out' = NoOut
    /\ alone' = Overlap(p)
    /\ rival' = RaceOver(p)
    /\ won' = won \ ({p} \cup {q \in Procs : rival[q] = p})
    /\ UNCHANGED <<dbvars, txvars, nextId, lock, tid>>
    /\ UNCHANGED auxvars

\* Account.close, lines 132-135, and Account.save, line 106, which close()
\* calls: the balance test, the new status and the recomputed balance are
\* all set on the object
Close(p, a) ==
    /\ pc[p] = "idle"
    /\ IF obj[p][a].balance > 0
       THEN /\ out' = Out(p, "AccountNotEmpty")
            /\ UNCHANGED <<obj, pc, cur, alone, rival, won>>
       ELSE /\ obj' = [obj EXCEPT ![p][a] =
                        [@ EXCEPT !.status = CLOSED,
                                  !.balance = Account_balance(p, a)]]
            /\ pc' = [pc EXCEPT ![p] = "closesave"]
            /\ cur' = [cur EXCEPT ![p] = [op |-> "close", source |-> a,
                                          destination |-> a, amount |-> 0]]
            /\ out' = NoOut
            /\ alone' = Overlap(p)
            /\ rival' = RaceOver(p)
            /\ won' = won \ ({p} \cup {q \in Procs : rival[q] = p})
    /\ UNCHANGED <<dbvars, txvars, nextId, lock, tid>>
    /\ UNCHANGED auxvars

\* Account.close, line 135 -> Account.save, line 107: committed at once
CloseSave(p) ==
    /\ pc[p] = "closesave"
    /\ lock[cur[p].source] = NoProc
    /\ db_acct' = [db_acct EXCEPT ![cur[p].source] = obj[p][cur[p].source]]
    /\ pc' = [pc EXCEPT ![p] = "idle"]
    /\ out' = Out(p, "closed")
    /\ cur' = [cur EXCEPT ![p] = NoCall]
    /\ alone' = Ended(p)
    /\ UNCHANGED <<db_transfers, db_txns, txvars, nextId, lock, obj, tid,
                   rival, won>>
    /\ UNCHANGED auxvars

\* the delete() that models.Model provides: the row is removed
Transfer_delete_default(p) ==
    /\ pc[p] = "idle"
    /\ \E t \in db_transfers :
          /\ db_transfers' = db_transfers \ {t}
          /\ db_txns' = {e \in db_txns : e.transfer # t.id}
    /\ out' = Out(p, "deleted")
    /\ UNCHANGED <<db_acct, txvars, nextId, lock, obj, pc, cur, tid,
                   alone, rival, won>>
    /\ UNCHANGED auxvars

\* Transfer.delete, lines 230-231, called on a committed Transfer
Transfer_delete(p) ==
    /\ pc[p] = "idle"
    /\ db_transfers # {}
    /\ out' = Out(p, "RuntimeError")
    /\ UNCHANGED <<dbvars, txvars, nextId, lock, obj, pc, cur, tid,
                   alone, rival, won>>
    /\ UNCHANGED auxvars

\* Transaction.delete, lines 268-269, called on a committed Transaction
Transaction_delete(p) ==
    /\ pc[p] = "idle"
    /\ db_txns # {}
    /\ out' = Out(p, "RuntimeError")
    /\ UNCHANGED <<dbvars, txvars, nextId, lock, obj, pc, cur, tid,
                   alone, rival, won>>
    /\ UNCHANGED auxvars

Next ==
    \/ \E p \in Procs : Load(p)
    \/ \E p \in Procs, s \in Accounts, d \in Accounts, amt \in Amounts :
          Post(p, s, d, amt)
    \/ \E p \in Procs : CreateTransfer(p)
    \/ \E p \in Procs : CreateDebit(p)
    \/ \E p \in Procs : CreateCredit(p)
    \/ \E p \in Procs : SourceBalance(p)
    \/ \E p \in Procs : SourceSave(p)
    \/ \E p \in Procs : DestinationBalance(p)
    \/ \E p \in Procs : DestinationSave(p)
    \/ \E p \in Procs : Wrap(p)
    \/ \E p \in Procs : Commit(p)
    \/ \E p \in Procs : Fail(p)
    \/ \E p \in Procs, a \in Accounts : Close(p, a)
    \/ \E p \in Procs : CloseSave(p)

Spec == Init /\ [][Next]_vars

\* ---- the operations above together with the deletion of records ----------

LedgerNext ==
    \/ Next
    \/ \E p \in Procs : Transfer_delete(p)
    \/ \E p \in Procs : Transaction_delete(p)

LedgerSpec == Init /\ [][LedgerNext]_vars

\* ---- the user who authorises a transfer ----------------------------------

\* the authorisor reported as the stored username whoever the user is now
authorisor_username_stored(t) == t.username

\* Transfer.authorisor_username, lines 239-243: self.user is fetched from the
\* user table
authorisor_username(t) ==
    IF t.user # NoUser THEN users[t.user].username ELSE t.username

\* the user's row gets another username
RenameUser(u, n) ==
    /\ users[u].present
    /\ n # users[u].username
    /\ users' = [users EXCEPT ![u].username = n]
    /\ out' = NoOut
    /\ UNCHANGED <<dbvars, txvars, nextId, lock, obj, pc, cur, tid,
                   alone, rival, won, dates, today, seen>>

\* the user's row is deleted; on_delete=SET_NULL (line 210) sets the user
\* column of the user's transfers to NULL. The delete waits while an open
\* transaction holds a new Transfer row that refers to the user.
DeleteUser(u) ==
    /\ users[u].present
    /\ \A p \in Procs : \A t \in tx_transfers[p] : t.user # u
    /\ users' = [users EXCEPT ![u] = [present |-> FALSE, username |-> ""]]
    /\ db_transfers' = {IF t.user = u THEN [t EXCEPT !.user = NoUser] ELSE t :
                           t \in db_transfers}
    /\ out' = NoOut
    /\ UNCHANGED <<db_acct, db_txns, txvars, nextId, lock, obj, pc, cur, tid,
                   alone, rival, won, dates, today, seen>>

\* one process posts transfers for users whose rows change meanwhile
UserProcs == {"p1"}

UserNext ==
    \/ \E p \in UserProcs, s \in Accounts, d \in Accounts, amt \in Amounts :
          Post(p, s, d, amt)
    \/ \E p \in UserProcs, u \in Users \cup {NoUser} : CreateTransferBy(p, u)
    \/ \E p \in UserProcs : CreateDebit(p)
    \/ \E p \in UserProcs : CreateCredit(p)
    \/ \E p \in UserProcs : SourceBalance(p)
    \/ \E p \in UserProcs : SourceSave(p)
    \/ \E p \in UserProcs : DestinationBalance(p)
    \/ \E p \in UserProcs : DestinationSave(p)
    \/ \E p \in UserProcs : Wrap(p)
    \/ \E p \in UserProcs : Commit(p)
    \/ \E p \in UserProcs : Fail(p)
    \/ \E u \in Users, n \in Names : RenameUser(u, n)
    \/ \E u \in Users : DeleteUser(u)

UserSpec == Init /\ [][UserNext]_vars

\* ---- the date range of an account ----------------------------------------

Answer(b) == IF b THEN "yes" ELSE "no"

\* ActiveAccountManager.get_query_set, lines 17-21: the filter an account
\* row with dates d passes on the given day
ActiveAccountManager(d, day) ==
    /\ (d.start_date # Null /\ d.start_date[1] <= day) \/ d.start_date = Null
    /\ (d.end_date # Null /\ d.end_date[1] >= day) \/ d.end_date = Null

\* Account.is_active, lines 92-100
is_active(d, day) ==
    IF d.start_date = Null /\ d.end_date = Null THEN TRUE
    ELSE IF d.start_date # Null /\ d.end_date = Null
         THEN day >= d.start_date[1]
    ELSE IF d.start_date = Null /\ d.end_date # Null
         THEN day < d.end_date[1]
    ELSE d.start_date[1] <= day /\ day < d.end_date[1]

\* an account with any start_date and end_date, on any day
DateInit ==
    /\ PostingInit
    /\ users = InitUsers
    /\ dates \in [start_date : {Null} \cup {<<d>> : d \in Days},
                  end_date : {Null} \cup {<<d>> : d \in Days}]
    /\ today \in Days
    /\ seen = Unasked

\* Account.active.all() is evaluated: is the account in it?
ActiveQuery ==
    /\ seen.listed = "unasked"
    /\ seen' = [seen EXCEPT !.listed = Answer(ActiveAccountManager(dates, today))]
    /\ UNCHANGED <<postvars, users, dates, today>>

\* account.is_active() is called
IsActive ==
    /\ seen.active = "unasked"
    /\ seen' = [seen EXCEPT !.active = Answer(is_active(dates, today))]
    /\ UNCHANGED <<postvars, users, dates, today>>

\* the day ends
Midnight ==
    /\ today < MaxDay
    /\ today' = today + 1
    /\ seen' = Unasked
    /\ UNCHANGED <<postvars, users, dates>>

DateNext == ActiveQuery \/ IsActive \/ Midnight

DateSpec == DateInit /\ [][DateNext]_vars

\* ---- the claims ----------------------------------------------------------

\* a step that may be a call of post() by p: p was idle and the step either
\* starts p's posting or delivers an outcome to p
PostStep(p) == pc[p] = "idle" /\ (pc'[p] = "transfer" \/ out'.proc = p)

\* the committed Transaction rows of Transfer t
EntriesOf(t) == {e \in db_txns : e.transfer = t.id}

\* C1: in every committed state the stored balance of each account equals the
\* sum of the amounts of its committed ledger entries (0 when it has none).
C1_BalanceIsLedgerSum ==
    \A a \in Accounts : db_acct[a].balance = Ledger(a)

\* C2: an account with a credit limit never has a committed balance below
\* minus that limit.
C2_CreditLimitRespected ==
    \A a \in Accounts :
        db_acct[a].credit_limit # Null
            => db_acct[a].balance >= -db_acct[a].credit_limit[1]

\* C3: two concurrent postings that debit the same source, which can afford
\* either one alone but not both, never both commit.
C3_RacingPostingsNeverBothCommit ==
    ~ \E p \in Procs, q \in Procs :
        /\ p # q
        /\ rival[p] = q /\ rival[q] = p
        /\ p \in won /\ q \in won

\* C4: a posting that fails after validation commits none of its writes: no
\* step of it before the commit touches the committed tables, and the step
\* that fails discards its Transfer row, its ledger entries and its account
\* updates, so that nothing of that Transfer is ever committed.
C4_FailedPostingCommitsNothing ==
    [][\A p \in Procs :
          /\ (pc[p] \in TxPcs /\ pc'[p] # pc[p] /\ out' # Out(p, "ok"))
                => UNCHANGED dbvars
          /\ (pc[p] \in TxPcs /\ pc'[p] = "idle" /\ out' # Out(p, "ok"))
                => /\ out'.proc = p
                   /\ tx_transfers'[p] = {} /\ tx_txns'[p] = {}
                   /\ \A a \in Accounts : tx_rows'[p][a] = <<>>
                   /\ \A t \in db_transfers' : t.id # tid[p]
                   /\ \A e \in db_txns' : e.transfer # tid[p]
      ]_vars

\* a posting has failed inside the atomic block after its writes were made
C4_Witness ==
    /\ out.outcome = "StorageFailure"
    /\ db_transfers # {}
    /\ nextId > Cardinality(db_transfers) + 1
    /\ \E a \in Accounts : obj[out.proc][a].balance # Ledger(a)

\* C5: every committed Transfer owns exactly two ledger entries, the debit of
\* its source (-amount) and the credit of its destination (+amount), and every
\* committed ledger entry belongs to exactly one committed Transfer.
C5_TransferOwnsTwoEntries ==
    /\ \A t \in db_transfers :
          /\ EntriesOf(t) =
                {[transfer |-> t.id, account |-> t.source, amount |-> -t.amount],
                 [transfer |-> t.id, account |-> t.destination,
                  amount |-> t.amount]}
          /\ Cardinality(EntriesOf(t)) = 2
          /\ SumAmounts(EntriesOf(t)) = 0
    /\ \A e \in db_txns :
          Cardinality({t \in db_transfers : t.id = e.transfer}) = 1

C5_Witness == Cardinality(db_transfers) = 2

\* C6: the amounts of all committed ledger entries sum to 0.
C6_LedgerSumsToZero == SumAmounts(db_txns) = 0

C6_Witness ==
    /\ Cardinality(db_txns) = 4
    /\ \E a \in Accounts : db_acct[a].balance # Ledger(a)

\* C7: a posting that commits with no other call overlapping it moves the
\* persisted balance of its source by -amount and of its destination by
\* +amount, adds exactly one Transfer with its arguments, and leaves every
\* other account and every earlier Transfer and ledger entry as they were.
C7_PostFrameEffect ==
    [][\A p \in Procs :
          (pc[p] = "commit" /\ out' = Out(p, "ok") /\ alone[p]) =>
             LET s == cur[p].source
                 d == cur[p].destination
                 amt == cur[p].amount
             IN  /\ db_acct'[s].balance = db_acct[s].balance - amt
                 /\ db_acct'[d].balance = db_acct[d].balance + amt
                 /\ db_transfers \subseteq db_transfers'
                 /\ \E t \in db_transfers' :
                       /\ db_transfers' \ db_transfers = {t}
                       /\ t.source = s /\ t.destination = d /\ t.amount = amt
                 /\ db_txns \subseteq db_txns'
                 /\ \A a \in Accounts \ {s, d} : db_acct'[a] = db_acct[a]
      ]_vars

\* C8: post() with amount <= 0 raises InvalidAmount and changes nothing.
\* (P => Q is written Q \/ ~P: Q is the cheaper test.)
C8_NonPositiveAmountRejected ==
    [][\A p \in Procs : PostStep(p) =>
          \/ /\ out' = Out(p, "InvalidAmount")
             /\ UNCHANGED <<dbvars, txvars, obj, pc, nextId>>
          \/ \A s \in Accounts, d \in Accounts, amt \in Amounts :
                ~(amt <= 0 /\ Post(p, s, d, amt))
      ]_vars

C8_Witness ==
    /\ out.outcome = "InvalidAmount"
    /\ \E a \in Accounts : obj[out.proc][a].status = CLOSED

\* C9: post() with a positive amount raises ClosedAccount when the source
\* account it is given is closed, and when the destination account it is given
\* is closed; it creates no row and changes no account.
C9_ClosedAccountRejected ==
    [][\A p \in Procs : PostStep(p) =>
          \A s \in Accounts, d \in Accounts, amt \in Amounts :
             (/\ amt > 0
              /\ (~is_open(obj[p][s]) \/ ~is_open(obj[p][d]))
              /\ Post(p, s, d, amt)) =>
                /\ ~is_open(obj[p][s]) => out' = Out(p, "ClosedAccountSource")
                /\ is_open(obj[p][s]) =>
                      out' = Out(p, "ClosedAccountDestination")
                /\ UNCHANGED <<dbvars, txvars, obj, pc, nextId>>
      ]_vars

C9_Witness == out.outcome = "ClosedAccountDestination"

\* the funds the source object shows do not cover the amount
Uncovered(o, amt) ==
    IF o.credit_limit = Null THEN FALSE
    ELSE amt > o.balance + o.credit_limit[1]

\* C10: with amount > 0 and both accounts open, post() raises
\* InsufficientFunds exactly when the source has a credit limit and
\* amount > balance + credit_limit; otherwise validation passes and the
\* posting goes on, in particular at amount = balance + credit_limit and
\* whenever the credit limit is null.
C10_InsufficientFundsExactly ==
    [][\A p \in Procs : PostStep(p) =>
          \A s \in Accounts, d \in Accounts, amt \in Amounts :
             (/\ amt > 0
              /\ is_open(obj[p][s]) /\ is_open(obj[p][d])
              /\ Post(p, s, d, amt)) =>
                IF Uncovered(obj[p][s], amt)
                THEN /\ out' = Out(p, "InsufficientFunds")
                     /\ UNCHANGED <<dbvars, txvars, obj, pc, nextId>>
                ELSE /\ out' = NoOut
                     /\ pc'[p] = "transfer"
                     /\ cur'[p].amount = amt /\ cur'[p].source = s
      ]_vars

\* validation has just passed at the boundary amount = balance + credit_limit
C10_Witness ==
    \E p \in Procs :
        /\ pc[p] = "transfer"
        /\ obj[p][cur[p].source].credit_limit # Null
        /\ cur[p].amount = obj[p][cur[p].source].balance
                             + obj[p][cur[p].source].credit_limit[1]

\* a step that may be a call of close() by p
CloseStep(p) == pc[p] = "idle" /\ (pc'[p] = "closesave" \/ out'.proc = p)

\* C11: close() on an account object whose balance is 0 sets its status to
\* Closed and the save that follows persists Closed; close() on an account
\* object whose balance is greater than 0 raises AccountNotEmpty and leaves
\* the account, its row and the ledger as they were.
C11_CloseZeroOrPositive ==
    [][\A p \in Procs :
          /\ CloseStep(p) =>
                \A a \in Accounts :
                   /\ (Close(p, a) /\ obj[p][a].balance = 0) =>
                         /\ pc'[p] = "closesave"
                         /\ cur'[p].source = a
                         /\ obj'[p][a].status = CLOSED
                         /\ UNCHANGED dbvars
                   /\ (Close(p, a) /\ obj[p][a].balance > 0) =>
                         /\ out' = Out(p, "AccountNotEmpty")
                         /\ UNCHANGED <<dbvars, txvars, obj, pc>>
          /\ (pc[p] = "closesave" /\ pc'[p] # "closesave") =>
                /\ out' = Out(p, "closed")
                /\ db_acct'[cur[p].source].status = CLOSED
                /\ UNCHANGED <<db_transfers, db_txns>>
      ]_vars

\* close() has been refused on one account after it went through on another
C11_Witness ==
    /\ out.outcome = "AccountNotEmpty"
    /\ \E a \in Accounts : db_acct[a].status = CLOSED /\ db_acct[a].balance = 0

\* C12: close() raises AccountNotEmpty whenever the balance of the account is
\* not zero, and every account whose committed status is Closed has a
\* committed balance of 0.
C12_ClosedMeansZeroBalance ==
    [][/\ \A p \in Procs : CloseStep(p) =>
             \A a \in Accounts :
                (Close(p, a) /\ obj[p][a].balance # 0) =>
                   /\ out' = Out(p, "AccountNotEmpty")
                   /\ UNCHANGED <<dbvars, txvars, obj, pc>>
       /\ \A a \in Accounts :
             db_acct'[a].status = CLOSED => db_acct'[a].balance = 0
      ]_vars

\* C14: every committed Transfer has a source different from its destination
\* and no two committed ledger entries share a Transfer and an account; a
\* posting called with the same account on both sides ends rejected and
\* commits no Transfer, no ledger entry and no balance.
C14_NoSelfTransfer ==
    [][/\ \A t \in db_transfers' : t.source # t.destination
       /\ \A e1 \in db_txns', e2 \in db_txns' :
             (e1.transfer = e2.transfer /\ e1.account = e2.account) => e1 = e2
       /\ \A p \in Procs :
             (/\ pc[p] \in TxPcs
              /\ cur[p].source = cur[p].destination
              /\ pc'[p] = "idle") =>
                /\ out'.proc = p
                /\ out'.outcome # "ok"
                /\ UNCHANGED dbvars
      ]_vars

\* the second entry of a same-account posting has been refused by the
\* unique constraint
C14_Witness ==
    /\ out.outcome = "IntegrityError"
    /\ cur[out.proc].source = cur[out.proc].destination

\* C15: validation tests the amount, then the source, then the destination,
\* then the funds, and reports the first test that fails; a rejected call has
\* written nothing and an accepted call has written nothing yet.
\* (P => Q is written Q \/ ~P: Q is the cheaper test.)
C15_ValidationOrder ==
    [][\A p \in Procs : PostStep(p) =>
          /\ \/ /\ UNCHANGED <<dbvars, txvars, obj, nextId>>
                /\ out'.proc = p => UNCHANGED pc
             \/ \A s \in Accounts, d \in Accounts, amt \in Amounts :
                   ~Post(p, s, d, amt)
          /\ \/ out' = Out(p, "InvalidAmount")
             \/ \A s \in Accounts, d \in Accounts, amt \in Amounts :
                   ~(amt <= 0 /\ Post(p, s, d, amt))
          /\ \A s \in Accounts, d \in Accounts, amt \in Amounts :
                \/ amt <= 0
                \/ /\ obj[p][s].status = CLOSED =>
                         out' = Out(p, "ClosedAccountSource")
                   /\ (obj[p][s].status = OPEN /\ obj[p][d].status = CLOSED) =>
                         out' = Out(p, "ClosedAccountDestination")
                   /\ (obj[p][s].status = OPEN /\ obj[p][d].status = OPEN) =>
                         out' \in {Out(p, "InsufficientFunds"), NoOut}
                \/ ~Post(p, s, d, amt)
          /\ out' = Out(p, "InsufficientFunds") =>
                \A s \in Accounts, d \in Accounts, amt \in Amounts :
                   \/ /\ amt > 0
                      /\ obj[p][s].status = OPEN
                      /\ obj[p][d].status = OPEN
                   \/ ~Post(p, s, d, amt)
      ]_vars

\* a closed source has been reported while the destination is closed too
C15_Witness ==
    /\ out.outcome = "ClosedAccountSource"
    /\ \A a \in Accounts : obj[out.proc][a].status = CLOSED

\* C17: once the committed status of an account is Closed, no step sets it
\* back to Open, adds or removes a ledger entry of the account, or changes
\* its committed balance.
C17_ClosedIsTerminal ==
    [][\A a \in Accounts :
          db_acct[a].status = CLOSED =>
             /\ db_acct'[a].status = CLOSED
             /\ db_acct'[a].balance = db_acct[a].balance
             /\ {e \in db_txns' : e.account = a} =
                   {e \in db_txns : e.account = a}
      ]_vars

\* C18: a posting called while no other call is in progress passes the funds
\* check only if the committed ledger of its source affords the amount, and,
\* run to its commit with no other call in between, it does not take a
\* source that was within its credit limit below that limit.
C18_FundsCheckedOnCommittedBalance ==
    [][\A p \in Procs :
          /\ (PostStep(p) /\ \A q \in Procs \ {p} : pc[q] = "idle") =>
                \A s \in Accounts, d \in Accounts, amt \in Amounts :
                   (/\ Post(p, s, d, amt)
                    /\ pc'[p] = "transfer"
                    /\ db_acct[s].credit_limit # Null) =>
                       amt <= Ledger(s) + db_acct[s].credit_limit[1]
          /\ (/\ pc[p] = "commit" /\ out' = Out(p, "ok") /\ alone[p]
              /\ db_acct[cur[p].source].credit_limit # Null
              /\ Ledger(cur[p].source) >=
                    -db_acct[cur[p].source].credit_limit[1]) =>
                SumAmounts({e \in db_txns' : e.account = cur[p].source}) >=
                   -db_acct[cur[p].source].credit_limit[1]
      ]_vars

\* C19: when a posting that ran with no other call in progress is rolled
\* back, the source and destination objects it was given carry the committed
\* ledger sum of their accounts. The objects considered are those whose
\* balance, before the failing step, is the committed sum or the sum that the
\* posting's own save computed.
C19_ObjectsKeepPersistedBalance ==
    [][\A p \in Procs :
          (/\ pc[p] \in TxPcs /\ pc'[p] = "idle" /\ out' # Out(p, "ok")
           /\ alone[p]) =>
              \A x \in {cur[p].source, cur[p].destination} :
                 obj[p][x].balance \in {Ledger(x), Account_balance(p, x)} =>
                    obj'[p][x].balance = Ledger(x)
      ]_vars

\* C20: on every day and for every start_date and end_date, null or not, the
\* account is in the set the active manager returns exactly when its
\* is_active() returns true.
C20_ActiveQueryAgreesWithIsActive ==
    (seen.listed # "unasked" /\ seen.active # "unasked")
        => seen.listed = seen.active

\* the username column of a Transfer is written from the user's name when
\* the row is created and no step changes it afterwards
StoredNameKept ==
    /\ \A p \in Procs, u \in Users :
          (pc[p] = "transfer" /\ CreateTransferBy(p, u)) =>
             \A t \in tx_transfers'[p] : t.username = users[u].username
    /\ \A t \in db_transfers \cup UNION {tx_transfers[p] : p \in Procs} :
          \A t2 \in db_transfers' \cup UNION {tx_transfers'[p] : p \in Procs} :
             t2.id = t.id => t2.username = t.username

\* C16: the username stored on a Transfer is the authorising user's name at
\* the time of creation and never changes, and the authorisor name reported
\* for a committed Transfer is always that stored name.
C16_ReportedNameIsCreationName ==
    [][/\ StoredNameKept
       /\ \A t \in db_transfers' : authorisor_username(t)' = t.username
      ]_vars

\* C16, amended: the username stored on a Transfer is the authorising user's
\* name at the time of creation and never changes; the authorisor name
\* reported for a committed Transfer is the current name of its user while
\* the user exists, and the stored name once the user has been removed or
\* when there was none.
C16_ReportedNameFollowsUser ==
    [][/\ StoredNameKept
       /\ \A t \in db_transfers' :
             /\ t.user # NoUser =>
                   /\ users'[t.user].present
                   /\ authorisor_username(t)' = users'[t.user].username
             /\ t.user = NoUser => authorisor_username(t)' = t.username
      ]_vars

\* a committed Transfer whose user has been renamed since, and another whose
\* user has been removed
C16_Witness ==
    /\ \E t \in db_transfers :
          t.user # NoUser /\ users[t.user].username # t.username
    /\ \E t \in db_transfers : t.user = NoUser /\ t.username # ""

\* C13: delete() on a committed Transfer or ledger entry raises the terminal
\* error and removes nothing, and no step of any operation removes or alters
\* a committed Transfer (its source, destination and amount) or a committed
\* ledger entry (its Transfer, account and amount).
C13_LedgerAppendOnly ==
    [][/\ \A p \in Procs :
             (pc[p] = "idle" /\ (Transfer_delete(p) \/ Transaction_delete(p)))
                => /\ out' = Out(p, "RuntimeError")
                   /\ UNCHANGED <<dbvars, txvars>>
       /\ \A t \in db_transfers : \E t2 \in db_transfers' :
             /\ t2.id = t.id
             /\ t2.source = t.source
             /\ t2.destination = t.destination
             /\ t2.amount = t.amount
       /\ db_txns \subseteq db_txns'
       /\ \A e2 \in db_txns' \ db_txns : \A e \in db_txns :
             ~(e2.transfer = e.transfer /\ e2.account = e.account)
      ]_vars

\* a delete has been refused while two Transfers and their entries are
\* committed
C13_Witness ==
    /\ out.outcome = "RuntimeError"
    /\ Cardinality(db_transfers) = 2
    /\ Cardinality(db_txns) = 4
====
